---- MODULE Spec2Model ----
(***************************************************************************)
(* A model of the bank-statement parser repository:                        *)
(*   - agent.py: the LangGraph workflow plan -> generate_parser -> parse   *)
(*     -> test with its conditional retry edge;                            *)
(*   - custom_parsers/icici_parser.py and custom_parsers/sbi_parser.py:    *)
(*     header matching, row reconstruction, type coercion.                 *)
(* Cell texts are TLA+ strings handled character by character (Len,        *)
(* SubSeq, \o), so that matching, stripping and numeric parsing are        *)
(* computed as the Python code computes them.                              *)
(***************************************************************************)
EXTENDS Integers, Sequences, FiniteSets, TLC

VARIABLES
    \* ---- agent.py: AgentState and the process around it
    node,        \* the graph node about to run, "END", or "raised"
    target,      \* state["target"]
    attempt,     \* state["attempt"]
    success,     \* state.get("success"): "none" | "true" | "false"
    hasExpected, \* whether state["expected"] is given
    matches,     \* whether the parser's table equals the expected CSV
    hasDf,       \* whether state["df"] is set
    registry,    \* the keys of PARSER_REGISTRY
    parserFiles, \* the targets whose custom_parsers/<target>_parser.py exists
    apiKey,      \* whether GOOGLE_API_KEY is set
    parseRuns,   \* ghost: number of parse_node invocations
    genRuns,     \* ghost: number of generate_parser_node invocations
    \* ---- one call of a helper of the parsers on its own
    purePc,      \* "idle", "in" (input drawn), or the helper that was applied
    pureIn,      \* the helper's argument
    pureOut,     \* the helper's result
    \* ---- one call of parse(pdf_path) of a parser
    bank,        \* "icici" | "sbi": whose parse is running
    pc,          \* the position in parse
    handle,      \* the pdfplumber handle: "none" | "open" | "closed"
    pg,          \* pages taken from pdf.pages so far
    ntab,        \* number of tables extract_tables() gave for the page
    tb,          \* tables of the page taken so far
    nrows,       \* len(table) of the current table
    rw,          \* index of the next row of the current table
    docRead,     \* ghost: tables and rows of the document so far (bounds it)
    c_idx,       \* sbi: the loop variable c_idx, which outlives its loop
    colmap,      \* icici: col_idx; sbi: current_page_column_mapping
    hdrIdx,      \* sbi: header_row_index
    fallback,    \* icici: fallback_5col
    lastRow,     \* ghost: the row of the current table read last, and what
                 \* was made of it (NoRow between tables)
    records,     \* icici: records; sbi: all_transactions_data
    df,          \* the table parse returns
    result,      \* "none" | "table" | "empty" | "raised"
    err,         \* what raised: "none" | "open" | "extract" | "row" | "schema"
    expected     \* icici: the reference schema read from expected.csv

agentVars == <<node, target, attempt, success, hasExpected, matches, hasDf,
               registry, parserFiles, apiKey, parseRuns, genRuns>>

pureVars == <<purePc, pureIn, pureOut>>

parseVars == <<bank, pc, handle, pg, ntab, tb, nrows, rw, docRead, c_idx, colmap,
               hdrIdx, fallback, lastRow, records, df, result, err, expected>>

vars == <<agentVars, pureVars, parseVars>>

(***************************************************************************)
(* Bounds                                                                  *)
(***************************************************************************)
\* The graph runtime aborts a run after a bounded number of steps; the model
\* stops counting parse_node invocations here.
MaxParseRuns == 5
\* Longest cell text given to numeric coercion on its own.
MaxNumLen == 4
\* Longest header row given to header matching on its own.
MaxHdrCols == 5
\* The document a parser is given: pages, tables in all, rows per table,
\* and rows in all.
MaxPages == 2
MaxDocTables == 2
MaxRows == 4
MaxDocRows == 4

(***************************************************************************)
(* Python str operations, character by character                           *)
(***************************************************************************)
CharAt(s, i) == SubSeq(s, i, i)

Whitespace == {" ", "\n", "\t"}
Digits == "0123456789"

DigitSet == {"0", "1", "2", "3", "4", "5", "6", "7", "8", "9"}

IsDigitChar(c) == c \in DigitSet

DigitValue ==
    "0" :> 0 @@ "1" :> 1 @@ "2" :> 2 @@ "3" :> 3 @@ "4" :> 4 @@
    "5" :> 5 @@ "6" :> 6 @@ "7" :> 7 @@ "8" :> 8 @@ "9" :> 9

DigitVal(c) == DigitValue[c]

\* str.lower() on the ASCII letters
LowerTable ==
    "A" :> "a" @@ "B" :> "b" @@ "C" :> "c" @@ "D" :> "d" @@ "E" :> "e" @@ "F" :> "f" @@
    "G" :> "g" @@ "H" :> "h" @@ "I" :> "i" @@ "J" :> "j" @@ "K" :> "k" @@ "L" :> "l" @@
    "M" :> "m" @@ "N" :> "n" @@ "O" :> "o" @@ "P" :> "p" @@ "Q" :> "q" @@ "R" :> "r" @@
    "S" :> "s" @@ "T" :> "t" @@ "U" :> "u" @@ "V" :> "v" @@ "W" :> "w" @@ "X" :> "x" @@
    "Y" :> "y" @@ "Z" :> "z"

LowerChar(c) == IF c \in DOMAIN LowerTable THEN LowerTable[c] ELSE c

RECURSIVE PyLower(_)
PyLower(s) ==
    IF s = "" THEN ""
    ELSE LowerChar(CharAt(s, 1)) \o PyLower(SubSeq(s, 2, Len(s)))

RECURSIVE LStrip(_)
LStrip(s) ==
    IF s # "" /\ CharAt(s, 1) \in Whitespace
       THEN LStrip(SubSeq(s, 2, Len(s)))
       ELSE s

RECURSIVE RStrip(_)
RStrip(s) ==
    IF s # "" /\ CharAt(s, Len(s)) \in Whitespace
       THEN RStrip(SubSeq(s, 1, Len(s) - 1))
       ELSE s

\* str.strip()
PyStrip(s) == RStrip(LStrip(s))

\* s.startswith(p)
StartsWith(s, p) == Len(p) <= Len(s) /\ SubSeq(s, 1, Len(p)) = p

\* p in s
Contains(p, s) ==
    \E i \in 1..(Len(s) - Len(p) + 1) : SubSeq(s, i, i + Len(p) - 1) = p

\* s.replace(old, new, count): left to right, non-overlapping; count < 0
\* replaces every occurrence. old is never empty here.
RECURSIVE PyReplaceN(_, _, _, _)
PyReplaceN(s, old, new, count) ==
    IF s = "" \/ count = 0 THEN s
    ELSE IF StartsWith(s, old)
            THEN new \o PyReplaceN(SubSeq(s, Len(old) + 1, Len(s)), old, new, count - 1)
            ELSE CharAt(s, 1) \o PyReplaceN(SubSeq(s, 2, Len(s)), old, new, count)

PyReplace(s, old, new) == PyReplaceN(s, old, new, -1)

\* s.isdigit(), on the ASCII digits
IsDigit(s) == s # "" /\ \A i \in 1..Len(s) : IsDigitChar(CharAt(s, i))

(***************************************************************************)
(* Cells and values                                                        *)
(* A raw cell is a string or None; a table cell may also be NaN (a key     *)
(* absent from the record).  A number is a decimal m / 10^e, normalised    *)
(* (m not divisible by 10 unless e = 0), so that equal floats are equal    *)
(* values; -0.0 is 0.                                                      *)
(***************************************************************************)
Cell(s) == [k |-> "str", s |-> s, m |-> 0, e |-> 0]
NoneCell == [k |-> "None", s |-> "", m |-> 0, e |-> 0]
NaN == [k |-> "nan", s |-> "", m |-> 0, e |-> 0]
NA == [k |-> "NA", s |-> "", m |-> 0, e |-> 0]

RECURSIVE Normalise(_, _)
Normalise(m, e) ==
    IF e > 0 /\ m % 10 = 0 THEN Normalise(m \div 10, e - 1)
    ELSE [k |-> "num", s |-> "", m |-> m, e |-> e]

Num(m, e) == Normalise(m, e)

IsNull(v) == v.k \in {"None", "nan", "NA"}
IsZero(v) == v.k = "num" /\ v.m = 0

\* str(x) for a cell, as Series.astype(str) applies it: None -> "None",
\* NaN -> "nan".
RECURSIVE DigitsOf(_)
DigitsOf(n) ==
    IF n < 10 THEN CharAt(Digits, n + 1)
    ELSE DigitsOf(n \div 10) \o CharAt(Digits, (n % 10) + 1)

RECURSIVE Pow10(_)
Pow10(e) == IF e = 0 THEN 1 ELSE 10 * Pow10(e - 1)

RECURSIVE ZeroPad(_, _)
ZeroPad(s, n) == IF Len(s) >= n THEN s ELSE ZeroPad("0" \o s, n)

\* repr of a float with few digits: "5.0", "-2.5", "0.05"
FloatStr(v) ==
    LET a == IF v.m < 0 THEN -v.m ELSE v.m
        ip == a \div Pow10(v.e)
        fp == a % Pow10(v.e)
    IN  (IF v.m < 0 THEN "-" ELSE "") \o DigitsOf(ip) \o "."
        \o (IF v.e = 0 THEN "0" ELSE ZeroPad(DigitsOf(fp), v.e))

AsTypeStr(c) ==
    CASE c.k = "str" -> c.s
      [] c.k = "None" -> "None"
      [] c.k = "nan" -> "nan"
      [] c.k = "NA" -> "<NA>"
      [] c.k = "num" -> FloatStr(c)

\* The value of a string of digits
RECURSIVE DigitsVal(_)
DigitsVal(s) ==
    IF s = "" THEN 0
    ELSE 10 * DigitsVal(SubSeq(s, 1, Len(s) - 1)) + DigitVal(CharAt(s, Len(s)))

AllDigits(s) == \A i \in 1..Len(s) : IsDigitChar(CharAt(s, i))

\* pd.to_numeric(..., errors="coerce") on one string: an optional sign, digits
\* with at most one ".", at least one digit; anything else is NaN.
ToNumeric(s) ==
    LET neg == StartsWith(s, "-")
        body == IF neg \/ StartsWith(s, "+") THEN SubSeq(s, 2, Len(s)) ELSE s
        dots == {i \in 1..Len(body) : CharAt(body, i) = "."}
        ip == IF dots = {} THEN body
              ELSE SubSeq(body, 1, (CHOOSE i \in dots : TRUE) - 1)
        fp == IF dots = {} THEN ""
              ELSE SubSeq(body, (CHOOSE i \in dots : TRUE) + 1, Len(body))
    IN  IF /\ Cardinality(dots) <= 1
           /\ AllDigits(ip) /\ AllDigits(fp)
           /\ Len(ip) + Len(fp) >= 1
           THEN LET m == DigitsVal(ip \o fp)
                IN  Num(IF neg THEN -m ELSE m, Len(fp))
           ELSE NaN

(***************************************************************************)
(* Idle values of the parts of the state a specification does not use      *)
(***************************************************************************)
PureIdle == purePc = "idle" /\ pureIn = NoneCell /\ pureOut = NoneCell

\* Nothing of the document read (yet)
NoneRead == [tables |-> 0, rows |-> 0]

\* No table (yet)
NoDf == [cols |-> <<>>, kinds |-> <<>>, rows |-> <<>>]

NoRow == [row |-> <<>>, rw |-> -1, how |-> "none", tm |-> <<>>, header |-> FALSE]

ParseIdle ==
    /\ bank = "" /\ pc = "idle" /\ handle = "none"
    /\ pg = 0 /\ ntab = 0 /\ tb = 0 /\ nrows = 0 /\ rw = 0 /\ docRead = NoneRead
    /\ c_idx = -1 /\ colmap = <<>> /\ hdrIdx = -1 /\ fallback = FALSE
    /\ lastRow = NoRow /\ records = <<>> /\ df = NoDf
    /\ result = "none" /\ err = "none" /\ expected = <<>>

AgentIdle ==
    /\ node = "idle" /\ target = "" /\ attempt = 0 /\ success = "none"
    /\ hasExpected = FALSE /\ matches = FALSE /\ hasDf = FALSE
    /\ registry = {} /\ parserFiles = {} /\ apiKey = FALSE
    /\ parseRuns = 0 /\ genRuns = 0

(***************************************************************************)
(* agent.py                                                                *)
(***************************************************************************)
Targets == {"icici", "sbi", "hdfc"}

\* agent.py main(): init_state, with the registry as parser_registry.py's
\* load_parsers() leaves it: one entry per parser file found that defines
\* parse(); a file without parse() is left out with a warning.
AgentInit ==
    /\ node = "plan"
    /\ target \in Targets
    /\ attempt = 1
    /\ success = "none"
    /\ hasExpected \in BOOLEAN
    /\ matches \in BOOLEAN
    /\ hasDf = FALSE
    /\ parserFiles \in SUBSET Targets
    /\ registry \in SUBSET parserFiles
    /\ apiKey \in BOOLEAN
    /\ parseRuns = 0
    /\ genRuns = 0
    /\ PureIdle
    /\ ParseIdle

plan_node ==
    /\ node = "plan"
    /\ node' = "generate_parser"
    /\ UNCHANGED <<target, attempt, success, hasExpected, matches, hasDf,
                   registry, parserFiles, apiKey, parseRuns, genRuns>>
    /\ UNCHANGED <<pureVars, parseVars>>

\* generate_parser_node with the registration left out of the stub path.
generate_parser_node_unregistered ==
    /\ node = "generate_parser"
    /\ \/ /\ target \in parserFiles
          /\ target \in registry
          /\ node' = "parse"
          /\ UNCHANGED <<registry, parserFiles>>
       \/ /\ target \in parserFiles
          /\ target \notin registry
          /\ node' = "raised"
          /\ UNCHANGED <<registry, parserFiles>>
       \/ /\ target \notin parserFiles
          /\ ~apiKey
          /\ parserFiles' = parserFiles \cup {target}
          /\ registry' = registry
          /\ node' = "parse"
       \/ /\ target \notin parserFiles
          /\ apiKey
          /\ \E generated \in BOOLEAN :
                /\ parserFiles' = parserFiles \cup {target}
                /\ registry' = registry \cup {target}
          /\ node' = "parse"
    /\ genRuns' = genRuns + 1
    /\ UNCHANGED <<target, attempt, success, hasExpected, matches, hasDf,
                   apiKey, parseRuns>>
    /\ UNCHANGED <<pureVars, parseVars>>

\* Every path of generate_parser_node: the parser file exists already and is
\* registered; it exists but was not registered, and load_parser raises on
\* module.parse; no API key, a stub is written; the model call succeeded or
\* failed (both write a file and register it).
generate_parser_node ==
    /\ node = "generate_parser"
    /\ \/ /\ target \in parserFiles
          /\ target \in registry
          /\ node' = "parse"
          /\ UNCHANGED <<registry, parserFiles>>
       \/ /\ target \in parserFiles
          /\ target \notin registry
          /\ node' = "raised"
          /\ UNCHANGED <<registry, parserFiles>>
       \/ /\ target \notin parserFiles
          /\ ~apiKey
          /\ parserFiles' = parserFiles \cup {target}
          /\ registry' = registry \cup {target}
          /\ node' = "parse"
       \/ /\ target \notin parserFiles
          /\ apiKey
          /\ \E generated \in BOOLEAN :
                /\ parserFiles' = parserFiles \cup {target}
                /\ registry' = registry \cup {target}
          /\ node' = "parse"
    /\ genRuns' = genRuns + 1
    /\ UNCHANGED <<target, attempt, success, hasExpected, matches, hasDf,
                   apiKey, parseRuns>>
    /\ UNCHANGED <<pureVars, parseVars>>

parse_node ==
    /\ node = "parse"
    /\ parseRuns < MaxParseRuns
    /\ parseRuns' = parseRuns + 1
    /\ IF target \in registry
          THEN /\ hasDf' = TRUE
               /\ node' = "test"
          ELSE /\ hasDf' = hasDf
               /\ node' = "raised"
    /\ UNCHANGED <<target, attempt, success, hasExpected, matches,
                   registry, parserFiles, apiKey, genRuns>>
    /\ UNCHANGED <<pureVars, parseVars>>

MAX_ATTEMPTS == 3

test_node ==
    /\ node = "test"
    /\ IF ~hasExpected
          THEN /\ success' = "true"
               /\ attempt' = attempt
          ELSE IF matches
                  THEN /\ success' = "true"
                       /\ attempt' = attempt
                  ELSE /\ success' = "false"
                       /\ attempt' = IF attempt >= MAX_ATTEMPTS
                                        THEN attempt
                                        ELSE attempt + 1
    /\ node' = "test_edge"
    /\ UNCHANGED <<target, hasExpected, matches, hasDf, registry,
                   parserFiles, apiKey, parseRuns, genRuns>>
    /\ UNCHANGED <<pureVars, parseVars>>

EDGE_LIMIT == 3

\* The lambda of workflow.add_conditional_edges("test", ...).
TestEdge(succ, att) ==
    IF succ # "true" /\ att <= EDGE_LIMIT THEN "retry" ELSE "end"

test_edge ==
    /\ node = "test_edge"
    /\ node' = IF TestEdge(success, attempt) = "retry" THEN "parse" ELSE "END"
    /\ UNCHANGED <<target, attempt, success, hasExpected, matches, hasDf,
                   registry, parserFiles, apiKey, parseRuns, genRuns>>
    /\ UNCHANGED <<pureVars, parseVars>>

AgentNext ==
    \/ plan_node
    \/ generate_parser_node
    \/ parse_node
    \/ test_node
    \/ test_edge

SpecAgent == AgentInit /\ [][AgentNext]_vars

\* C1: every run of the workflow invokes parse_node at most 3 times (after
\* the third failed test no further parse is run).
C1_AtMostThreeParses == parseRuns <= MAX_ATTEMPTS

(***************************************************************************)
(* Numeric coercion of one cell                                            *)
(***************************************************************************)
\* icici_parser._clean_numeric_series with the lone "-" never blanked and the
\* unparsable filled with 0.0.
IciciCleanNumericFill0(c) ==
    LET s4 == PyStrip(PyReplace(PyReplace(AsTypeStr(c), ",", ""), "...", ""))
        v == IF s4 = "" THEN NaN ELSE ToNumeric(s4)
    IN  IF v = NaN THEN Num(0, 0) ELSE v

\* icici_parser._clean_numeric_series, on one element of the series
IciciCleanNumeric(c) ==
    LET s1 == AsTypeStr(c)
        s2 == PyReplace(s1, ",", "")
        s3 == PyReplace(s2, "...", "")
        s4 == PyStrip(s3)
        \* Series.replace("-", ""): the whole value
        s5 == IF s4 = "-" THEN "" ELSE s4
    IN  IF s5 = "" THEN NaN ELSE ToNumeric(s5)

\* re.sub(r'[^\d.-]', '', s)
RECURSIVE KeepNumChars(_)
KeepNumChars(s) ==
    IF s = "" THEN ""
    ELSE LET c == CharAt(s, 1)
             rest == KeepNumChars(SubSeq(s, 2, Len(s)))
         IN  IF IsDigitChar(c) \/ c = "." \/ c = "-" THEN c \o rest ELSE rest

\* sbi_parser.parse, the numeric_cols loop, on one element of the column
SbiCleanNumeric(c) ==
    LET s1 == AsTypeStr(c)
        s2 == KeepNumChars(s1)
        v == IF s2 = "" THEN NaN ELSE ToNumeric(s2)
    IN  IF v = NaN THEN Num(0, 0) ELSE v

RECURSIVE StringsUpTo(_, _)
StringsUpTo(A, n) ==
    IF n = 0 THEN {""}
    ELSE LET S == StringsUpTo(A, n - 1)
         IN  S \cup {s \o c : s \in S, c \in A}

NumAlphabet == {"-", " ", "5", "0", ".", ","}

NumCells == {Cell(s) : s \in StringsUpTo(NumAlphabet, MaxNumLen)} \cup {NoneCell, NaN}

NumInit ==
    /\ purePc = "in"
    /\ pureIn \in NumCells
    /\ pureOut = NoneCell
    /\ AgentIdle
    /\ ParseIdle

ApplyIciciCleanNumeric ==
    /\ purePc = "in"
    /\ purePc' = "icici_num"
    /\ pureOut' = IciciCleanNumeric(pureIn)
    /\ UNCHANGED <<pureIn, agentVars, parseVars>>

ApplySbiCleanNumeric ==
    /\ purePc = "in"
    /\ purePc' = "sbi_num"
    /\ pureOut' = SbiCleanNumeric(pureIn)
    /\ UNCHANGED <<pureIn, agentVars, parseVars>>

NumNext == ApplyIciciCleanNumeric \/ ApplySbiCleanNumeric

SpecNum == NumInit /\ [][NumNext]_vars

\* A cell whose text is a lone "-", optionally surrounded by whitespace
LoneDash(c) == c.k = "str" /\ PyStrip(c.s) = "-"

\* C3 (as stated): in both parsers' numeric coercion a lone "-" is coerced to
\* null, never to 0.
C3_LoneDashNullInBoth ==
    (purePc \in {"icici_num", "sbi_num"} /\ LoneDash(pureIn)) => IsNull(pureOut)

\* C3 (amended): icici_parser's _clean_numeric_series coerces a lone "-" to
\* null; sbi_parser's numeric cleaning coerces it to 0.0.
C3_LoneDash ==
    LoneDash(pureIn) =>
        /\ purePc = "icici_num" => pureOut = NaN
        /\ purePc = "sbi_num" => pureOut = Num(0, 0)

C3_Witness ==
    /\ purePc = "icici_num"
    /\ pureIn = Cell(" - ")
    /\ pureOut = NaN

(***************************************************************************)
(* Header matching                                                         *)
(* Rows are sequences of cells; Python's index i is position i + 1 here.   *)
(* An unassigned index (None, or an unbound local) is -1.                  *)
(***************************************************************************)
Unset == -1

\* icici_parser._normalize_header
IciciNormalizeCell(h) == PyLower(PyStrip(IF h.k = "None" THEN "" ELSE AsTypeStr(h)))

RECURSIVE _normalize_header(_)
_normalize_header(header) ==
    IF header = <<>> THEN <<>>
    ELSE <<IciciNormalizeCell(Head(header))>> \o _normalize_header(Tail(header))

IciciNoIdx ==
    [date |-> Unset, description |-> Unset, debit |-> Unset, credit |-> Unset,
     balance |-> Unset]

\* One iteration of the loop of _find_col_indices, on cell i (0-based) = h
IciciMatchCell(idx, i, h) ==
    IF h = "" THEN idx
    ELSE [date |->
            IF Contains("date", h) /\ idx.date = Unset THEN i ELSE idx.date,
          description |->
            IF (Contains("description", h) \/ Contains("narration", h))
               /\ idx.description = Unset THEN i ELSE idx.description,
          debit |->
            IF (Contains("debit", h) \/ Contains("withdrawal", h))
               /\ idx.debit = Unset THEN i ELSE idx.debit,
          credit |->
            IF (Contains("credit", h) \/ Contains("deposit", h))
               /\ idx.credit = Unset THEN i ELSE idx.credit,
          balance |->
            IF (Contains("balance", h) \/ Contains("closing balance", h))
               /\ idx.balance = Unset THEN i ELSE idx.balance]

RECURSIVE IciciMatchFrom(_, _, _)
IciciMatchFrom(header_norm, i, idx) ==
    IF i >= Len(header_norm) THEN idx
    ELSE IciciMatchFrom(header_norm, i + 1,
                        IciciMatchCell(idx, i, header_norm[i + 1]))

_find_col_indices(header_norm) == IciciMatchFrom(header_norm, 0, IciciNoIdx)

IciciCols == {"date", "description", "debit", "credit", "balance"}

\* sbi_parser.parse: column_keyword_map, in the dict's order
column_keyword_map ==
    << [col |-> "Date", keywords |-> <<"date", "txn date", "transaction date">>],
       [col |-> "Description",
        keywords |-> <<"description", "particulars", "particular">>],
       [col |-> "Debit Amt",
        keywords |-> <<"debit", "withdrawal", "amount (dr)", "amt.dr", "amountdr">>],
       [col |-> "Credit Amt",
        keywords |-> <<"credit", "deposit", "amount (cr)", "amt.cr", "amountcr">>],
       [col |-> "Balance",
        keywords |-> <<"balance", "closing balance", "cl bal", "closingbal",
                       "available balance">>] >>

target_columns == <<"Date", "Description", "Debit Amt", "Credit Amt", "Balance">>

\* sbi_parser.parse line 52: clean_row
SbiCleanCell(cell) ==
    IF cell.k = "None" THEN ""
    ELSE PyReplace(PyStrip(PyLower(AsTypeStr(cell))), "\n", " ")

RECURSIVE SbiCleanRow(_)
SbiCleanRow(row) ==
    IF row = <<>> THEN <<>>
    ELSE <<SbiCleanCell(Head(row))>> \o SbiCleanRow(Tail(row))

EmptyMap == [x \in {} |-> ""]

Range(f) == {f[x] : x \in DOMAIN f}

\* The scan state: temp_mapping (physical index -> column), found_keys_count,
\* the loop variable c_idx (which outlives its loop), and whether line 69
\* read c_idx while it was unbound.
\* The loop over the cells for one keyword (lines 60-67), from cell i (1-based)
RECURSIVE SbiCellLoop(_, _, _, _, _)
SbiCellLoop(keyword, col_name, clean_row, i, st) ==
    IF i > Len(clean_row) THEN st
    ELSE IF Contains(keyword, clean_row[i]) /\ (i - 1) \notin DOMAIN st.tm
            THEN [st EXCEPT !.tm = ((i - 1) :> col_name) @@ st.tm,
                            !.found = st.found + 1,
                            !.c_idx = i - 1]
            ELSE SbiCellLoop(keyword, col_name, clean_row, i + 1,
                             [st EXCEPT !.c_idx = i - 1])

\* The loop over the keywords of one column that stops after its first keyword
RECURSIVE SbiKeywordLoopFirstOnly(_, _, _, _, _)
SbiKeywordLoopFirstOnly(col_name, keywords, j, clean_row, st) ==
    IF j > 1 \/ j > Len(keywords) THEN st
    ELSE LET st1 == SbiCellLoop(keywords[j], col_name, clean_row, 1, st)
         IN  IF st1.c_idx = Unset THEN [st1 EXCEPT !.err = TRUE] ELSE st1

\* The loop over the keywords of one column (lines 59-70), from keyword j
RECURSIVE SbiKeywordLoop(_, _, _, _, _)
SbiKeywordLoop(col_name, keywords, j, clean_row, st) ==
    IF j > Len(keywords) THEN st
    ELSE LET st1 == SbiCellLoop(keywords[j], col_name, clean_row, 1, st)
         IN  IF st1.c_idx = Unset
                THEN [st1 EXCEPT !.err = TRUE]   \* UnboundLocalError, line 69
             ELSE IF st1.c_idx \in DOMAIN st1.tm /\ st1.tm[st1.c_idx] = col_name
                THEN st1
             ELSE SbiKeywordLoop(col_name, keywords, j + 1, clean_row, st1)

\* The loop over the columns (lines 58-70), from column k
RECURSIVE SbiColumnLoop(_, _, _)
SbiColumnLoop(k, clean_row, st) ==
    IF k > Len(column_keyword_map) \/ st.err THEN st
    ELSE SbiColumnLoop(k + 1, clean_row,
                       SbiKeywordLoop(column_keyword_map[k].col,
                                      column_keyword_map[k].keywords, 1,
                                      clean_row, st))

\* Lines 75-76 with the coverage threshold one higher
is_likely_header_4(tm, found) ==
    \/ "Date" \in Range(tm) /\ found >= 4
    \/ "Date" \in Range(tm) /\ "Description" \in Range(tm) /\ "Balance" \in Range(tm)

\* Lines 75-76
is_likely_header(tm, found) ==
    \/ "Date" \in Range(tm) /\ found >= 3
    \/ "Date" \in Range(tm) /\ "Description" \in Range(tm) /\ "Balance" \in Range(tm)

\* Lines 49-81 for one row: the mapping, and whether the row is the header.
\* c_idx0 is the value the loop variable has on entry (Unset: still unbound).
SbiScanRow(row, c_idx0) ==
    LET st == SbiColumnLoop(1, SbiCleanRow(row),
                            [tm |-> EmptyMap, found |-> 0, c_idx |-> c_idx0,
                             err |-> FALSE])
    IN  [tm |-> st.tm, found |-> st.found, c_idx |-> st.c_idx, err |-> st.err,
         header |-> ~st.err /\ is_likely_header(st.tm, st.found)]

HdrCellPool ==
    {Cell("Txn Date"), Cell("Particulars"), Cell("Withdrawal"), Cell("Deposit"),
     Cell("Closing Balance"), Cell("Debit/Credit"), NoneCell}

RECURSIVE RowsUpTo(_, _)
RowsUpTo(pool, n) ==
    IF n = 0 THEN {<<>>}
    ELSE LET S == RowsUpTo(pool, n - 1)
         IN  S \cup {Append(r, c) : r \in S, c \in pool}

HdrInit ==
    /\ purePc = "in"
    /\ pureIn \in RowsUpTo(HdrCellPool, MaxHdrCols)
    /\ pureOut = NoneCell
    /\ AgentIdle
    /\ ParseIdle

ApplyIciciFindColIndices ==
    /\ purePc = "in"
    /\ purePc' = "icici_hdr"
    /\ pureOut' = _find_col_indices(_normalize_header(pureIn))
    /\ UNCHANGED <<pureIn, agentVars, parseVars>>

\* The header scan on the first row the call scans (c_idx still unbound)
ApplySbiScanRow ==
    /\ purePc = "in"
    /\ purePc' = "sbi_hdr"
    /\ pureOut' = SbiScanRow(pureIn, Unset)
    /\ UNCHANGED <<pureIn, agentVars, parseVars>>

HdrNext == ApplyIciciFindColIndices \/ ApplySbiScanRow

SpecHdr == HdrInit /\ [][HdrNext]_vars

\* The mapping of icici: no physical index for two logical columns
IciciInjective(idx) ==
    \A a, b \in IciciCols : (a # b /\ idx[a] # Unset) => idx[a] # idx[b]

\* The mapping of sbi: no logical column at two physical indices
SbiInjective(tm) ==
    \A a, b \in DOMAIN tm : a # b => tm[a] # tm[b]

\* C4: for every header row, in both parsers, the derived column mapping is
\* one-to-one: no physical index for two logical columns, no logical column at
\* two physical indices.
C4_MappingOneToOne ==
    /\ purePc = "icici_hdr" => IciciInjective(pureOut)
    /\ (purePc = "sbi_hdr" /\ ~pureOut.err) => SbiInjective(pureOut.tm)

\* The cells of a cleaned row that contain a keyword of column k
CellsOf(k, clean_row) ==
    {i \in 1..Len(clean_row) :
        \E j \in 1..Len(column_keyword_map[k].keywords) :
            Contains(column_keyword_map[k].keywords[j], clean_row[i])}

\* Each logical column has a keyword in exactly one cell, and no cell holds
\* keywords of two logical columns.
DistinctHeader(row) ==
    LET cr == SbiCleanRow(row)
    IN  /\ \A k \in 1..5 : Cardinality(CellsOf(k, cr)) = 1
        /\ \A k, l \in 1..5 : k # l => CellsOf(k, cr) \cap CellsOf(l, cr) = {}

\* C5: in sbi_parser's header scan, a row in which each of the five logical
\* columns has a keyword in a cell of its own is mapped cell by cell (each
\* logical column to the index of its cell) and accepted as the header.
C5_DistinctHeaderMapped ==
    (purePc = "sbi_hdr" /\ DistinctHeader(pureIn)) =>
        /\ ~pureOut.err
        /\ pureOut.header
        /\ DOMAIN pureOut.tm = {i - 1 : i \in UNION {CellsOf(k, SbiCleanRow(pureIn)) : k \in 1..5}}
        /\ \A k \in 1..5 : \A i \in CellsOf(k, SbiCleanRow(pureIn)) :
              pureOut.tm[i - 1] = column_keyword_map[k].col

C5_Witness ==
    /\ purePc = "sbi_hdr"
    /\ pureIn = <<Cell("Txn Date"), Cell("Particulars"), Cell("Withdrawal"),
                  Cell("Deposit"), Cell("Closing Balance")>>
    /\ pureOut.header
    /\ pureOut.tm = (0 :> "Date" @@ 1 :> "Description" @@ 2 :> "Debit Amt"
                     @@ 3 :> "Credit Amt" @@ 4 :> "Balance")

(***************************************************************************)
(* Dates and descriptions (sbi_parser.parse, lines 140-154)                *)
(***************************************************************************)
NaT == [k |-> "NaT", s |-> "", m |-> 0, e |-> 0]

Date(y, mo, d) == [k |-> "date", s |-> "", m |-> y * 10000 + mo * 100 + d, e |-> 0]

DaysIn(y, mo) ==
    IF mo \in {4, 6, 9, 11} THEN 30
    ELSE IF mo = 2
            THEN (IF y % 4 = 0 /\ (y % 100 # 0 \/ y % 400 = 0) THEN 29 ELSE 28)
            ELSE 31

\* pd.to_datetime(..., errors='coerce', dayfirst=True) followed by
\* dt.normalize(), on one element. Modelled on DD/MM/YYYY texts and on texts
\* that are no date at all (the inputs drawn are of these two kinds); a
\* missing value or an unparsable text is NaT.
ToDatetime(cell) ==
    IF cell.k = "date" THEN cell          \* already datetime64: kept
    ELSE IF cell.k # "str" THEN NaT
    ELSE LET s == cell.s
         IN  IF /\ Len(s) = 10
                /\ CharAt(s, 3) = "/" /\ CharAt(s, 6) = "/"
                /\ AllDigits(SubSeq(s, 1, 2)) /\ AllDigits(SubSeq(s, 4, 5))
                /\ AllDigits(SubSeq(s, 7, 10))
                THEN LET d == DigitsVal(SubSeq(s, 1, 2))
                         mo == DigitsVal(SubSeq(s, 4, 5))
                         y == DigitsVal(SubSeq(s, 7, 10))
                     IN  IF mo \in 1..12 /\ y >= 1 /\ d >= 1 /\ d <= DaysIn(y, mo)
                            THEN Date(y, mo, d) ELSE NaT
                ELSE NaT

RECURSIVE SkipSpace(_, _)
SkipSpace(s, i) ==
    IF i <= Len(s) /\ CharAt(s, i) \in Whitespace THEN SkipSpace(s, i + 1) ELSE i

RECURSIVE SkipDigits(_, _)
SkipDigits(s, i) ==
    IF i <= Len(s) /\ IsDigitChar(CharAt(s, i)) THEN SkipDigits(s, i + 1) ELSE i

\* Whether s has the word w (lower case) at position i, ignoring case
WordAt(s, i, w) ==
    i + Len(w) - 1 <= Len(s) /\ PyLower(SubSeq(s, i, i + Len(w) - 1)) = w

\* The end (first position after it) of a match of
\*   \s*\(?Page\s*\d+\s*of\s*\d+\)?\s*   (IGNORECASE)
\* starting at position i, or 0 when there is none there. Every piece is
\* greedy and is followed by a piece of another character class, so the
\* greedy match is the match.
PageMatchEnd(s, i) ==
    LET j1 == SkipSpace(s, i)
        j2 == IF j1 <= Len(s) /\ CharAt(s, j1) = "(" THEN j1 + 1 ELSE j1
        j3 == SkipSpace(s, j2 + 4)
        j4 == SkipDigits(s, j3)
        j5 == SkipSpace(s, j4)
        j6 == SkipSpace(s, j5 + 2)
        j7 == SkipDigits(s, j6)
        j8 == IF j7 <= Len(s) /\ CharAt(s, j7) = ")" THEN j7 + 1 ELSE j7
    IN  IF /\ WordAt(s, j2, "page")
           /\ j4 > j3
           /\ WordAt(s, j5, "of")
           /\ j7 > j6
           THEN SkipSpace(s, j8)
           ELSE 0

\* re.sub(r'\s*\(?Page\s*\d+\s*of\s*\d+\)?\s*', '', x, flags=re.IGNORECASE)
RECURSIVE RemovePageArtifacts(_, _)
RemovePageArtifacts(s, i) ==
    IF i > Len(s) THEN ""
    ELSE LET e == PageMatchEnd(s, i)
         IN  IF e > 0 THEN RemovePageArtifacts(s, e)
             ELSE CharAt(s, i) \o RemovePageArtifacts(s, i + 1)

\* Lines 149-154, on one element of the Description column
SbiCleanDescription(cell) ==
    LET s1 == PyStrip(AsTypeStr(cell))
        s2 == RemovePageArtifacts(s1, 1)
    IN  Cell(IF s2 = "nan" THEN "" ELSE s2)

(***************************************************************************)
(* sbi_parser.parse                                                        *)
(***************************************************************************)
ColSet == {"Date", "Description", "Debit Amt", "Credit Amt", "Balance"}

Min(a, b) == IF a < b THEN a ELSE b

MaxLen(rows) == CHOOSE n \in 0..16 : (\E r \in rows : Len(r) = n) /\ (\A r \in rows : Len(r) <= n)

\* A record of the accumulating sequence: the five fields and, as a ghost,
\* where its row stood in the document (page, table of the page, row).
MkRecord(id, date, description, debit, credit, balance) ==
    [id |-> id, Date |-> date, Description |-> description,
     Debit |-> debit, Credit |-> credit, Balance |-> balance]

\* Python truth of a cell value: a non-empty string
Truthy(v) == v.k = "str" /\ v.s # ""

\* transaction[col] after the loop of lines 93-96, NaN standing for a key
\* the dict does not have (what the DataFrame makes of it)
SbiField(row, tm, col) ==
    IF \E i \in DOMAIN tm : tm[i] = col /\ i < Len(row)
       THEN row[(CHOOSE i \in DOMAIN tm : tm[i] = col /\ i < Len(row)) + 1]
       ELSE NaN

SbiTransaction(id, row, tm) ==
    MkRecord(id, SbiField(row, tm, "Date"), SbiField(row, tm, "Description"),
             SbiField(row, tm, "Debit Amt"), SbiField(row, tm, "Credit Amt"),
             SbiField(row, tm, "Balance"))

RejectWords == {"total", "page", "balance brought forward", "balance carried forward"}

\* Lines 100-109: whether the transaction is appended
SbiAccepts(row, tm) ==
    LET tr == SbiTransaction(<<>>, row, tm)
        \* str(transaction.get('Description', '')).lower()
        description_str ==
            IF \E i \in DOMAIN tm : tm[i] = "Description" /\ i < Len(row)
               THEN PyLower(AsTypeStr(tr.Description))
               ELSE ""
    IN  /\ Truthy(tr.Date)
        /\ \/ Truthy(tr.Description)
           \/ Truthy(tr.Debit)
           \/ Truthy(tr.Credit)
           \/ Truthy(tr.Balance)
        /\ ~\E kw \in RejectWords : Contains(kw, description_str)

\* all_transactions_data.append(transaction), with the new one put first
SbiPrepend(recs, rec) == <<rec>> \o recs

\* all_transactions_data.append(transaction)
SbiAppend(recs, rec) == Append(recs, rec)

\* Lines 127-154 on one row of the DataFrame
SbiCleanRecord(rec) ==
    MkRecord(rec.id, ToDatetime(rec.Date), SbiCleanDescription(rec.Description),
             SbiCleanNumeric(rec.Debit), SbiCleanNumeric(rec.Credit),
             SbiCleanNumeric(rec.Balance))

\* Line 145 (dropna on Date) and line 158 (the final filter)
SbiKeeps(r) ==
    /\ r.Date # NaT
    /\ ~(/\ r.Description = Cell("")
         /\ IsZero(r.Debit) /\ IsZero(r.Credit) /\ IsZero(r.Balance))

RECURSIVE SelectSeqBy(_, _)
SelectSeqBy(s, keep) ==
    IF s = <<>> THEN <<>>
    ELSE (IF Head(s) \in keep THEN <<Head(s)>> ELSE <<>>) \o SelectSeqBy(Tail(s), keep)

RECURSIVE MapSbiClean(_)
MapSbiClean(recs) ==
    IF recs = <<>> THEN <<>>
    ELSE <<SbiCleanRecord(Head(recs))>> \o MapSbiClean(Tail(recs))

\* Lines 119-163: the returned rows, in the column order of target_columns
SbiPostProcess(recs) ==
    LET cleaned == MapSbiClean(recs)
    IN  SelectSeqBy(cleaned, {r \in Range(cleaned) : SbiKeeps(r)})

D(s) == Cell(s)

\* The rows a table of an SBI statement is drawn from
SbiRowPool ==
    { <<D("Date"), D("Description"), D("Debit"), D("Credit"), D("Balance")>>,
      <<D("Date"), D("Description")>>,
      <<D("Txn Date"), D("Withdrawal"), D("Deposit")>>,
      <<>>,
      <<D("01/02/2025"), D("UPI"), D("5,000.00")>>,
      <<D("02/02/2025"), NoneCell, D("0.00"), D("-"), D("")>>,
      <<D("03/02/2025"), D(" "), D("0"), D(""), D("")>>,
      <<D("04/02/2025"), D("ATM (Page 1 of 2)")>> }

\* SbiScanRow tabulated, once, over the rows of the pool and the values c_idx
\* can have on entry
RECURSIVE SbiScanTableOver(_)
SbiScanTableOver(S) ==
    IF S = {} THEN <<>>
    ELSE LET x == CHOOSE y \in S : TRUE
         IN  (x :> SbiScanRow(x[1], x[2])) @@ SbiScanTableOver(S \ {x})

SbiScanTable ==
    SbiScanTableOver(SbiRowPool \X {i - 1 : i \in 0..MaxLen(SbiRowPool)})

\* The empty table with the five columns (lines 114 and 117)
SbiEmptyDf ==
    [cols |-> target_columns, kinds |-> <<"O", "O", "O", "O", "O">>, rows |-> <<>>]

\* The dtype kinds of the columns after lines 138, 143 and 150
SbiDtypes == <<"M", "O", "f", "f", "f">>

SbiParseInit ==
    /\ bank = "sbi" /\ pc = "start" /\ handle = "none"
    /\ pg = 0 /\ ntab = 0 /\ tb = 0 /\ nrows = 0 /\ rw = 0 /\ docRead = NoneRead
    /\ c_idx = Unset /\ colmap = EmptyMap /\ hdrIdx = -1 /\ fallback = FALSE
    /\ lastRow = NoRow /\ records = <<>> /\ df = NoDf
    /\ result = "none" /\ err = "none" /\ expected = <<>>

\* The locals of the row loops are dead once the table is left, and those of
\* the page and table loops once the with block is left: they take their idle
\* values.
TableLeft ==
    nrows' = 0 /\ rw' = 0 /\ colmap' = EmptyMap /\ hdrIdx' = -1 /\ lastRow' = NoRow

LoopLeft ==
    /\ TableLeft
    /\ pg' = 0 /\ ntab' = 0 /\ tb' = 0 /\ docRead' = NoneRead /\ c_idx' = Unset

\* The except clause returning what was accumulated so far
SbiExceptPartial(what) ==
    /\ pc' = "done" /\ handle' = IF handle = "open" THEN "closed" ELSE handle
    /\ result' = "table" /\ err' = what
    /\ df' = [cols |-> target_columns, kinds |-> SbiDtypes,
              rows |-> SbiPostProcess(records)]
    /\ LoopLeft
    /\ UNCHANGED <<bank, fallback, records, expected>>

\* The except clause (lines 112-114) after the with block released the handle:
\* the empty table is returned.
SbiExcept(what) ==
    /\ pc' = "done" /\ handle' = IF handle = "open" THEN "closed" ELSE handle
    /\ result' = "empty" /\ df' = SbiEmptyDf /\ err' = what
    /\ LoopLeft
    /\ UNCHANGED <<bank, fallback, records, expected>>

\* Line 34: pdfplumber.open(pdf_path), which may raise
SbiOpen ==
    /\ bank = "sbi" /\ pc = "start"
    /\ \/ /\ handle' = "open" /\ pc' = "page"
          /\ UNCHANGED <<bank, pg, ntab, tb, nrows, rw, docRead, c_idx, colmap,
                         hdrIdx, fallback, lastRow, records, df, result, err,
                         expected>>
       \/ SbiExcept("open")
    /\ UNCHANGED <<agentVars, pureVars>>

\* Lines 35-39: the next page and its extract_tables(), which may raise; or
\* the end of pdf.pages, where the with block ends
SbiNextPage ==
    /\ bank = "sbi" /\ pc = "page"
    /\ \/ /\ pg < MaxPages
          /\ \E k \in 0..(MaxDocTables - docRead.tables) :
                /\ pg' = pg + 1 /\ ntab' = k /\ tb' = 0 /\ pc' = "table"
                /\ docRead' = [docRead EXCEPT !.tables = @ + k]
          /\ UNCHANGED <<bank, handle, nrows, rw, c_idx, colmap, hdrIdx,
                         fallback, lastRow, records, df, result, err, expected>>
       \/ /\ pg < MaxPages
          /\ SbiExcept("extract")
       \/ /\ handle' = "closed" /\ pc' = "post"
          /\ LoopLeft
          /\ UNCHANGED <<bank, fallback, records, df, result, err, expected>>
    /\ UNCHANGED <<agentVars, pureVars>>

\* Lines 41-46: the next table of the page (an empty one is passed over), or
\* the end of the page's tables
SbiNextTable ==
    /\ bank = "sbi" /\ pc = "table"
    /\ \/ /\ tb < ntab
          /\ \E n \in 0..Min(MaxRows, MaxDocRows - docRead.rows) :
                /\ tb' = tb + 1
                /\ docRead' = [docRead EXCEPT !.rows = @ + n]
                /\ nrows' = n /\ rw' = 0
                /\ pc' = IF n = 0 THEN "table" ELSE "scan"
          /\ colmap' = EmptyMap /\ hdrIdx' = -1 /\ lastRow' = NoRow
          /\ UNCHANGED <<pg, ntab>>
       \/ /\ tb = ntab
          /\ pc' = "page"
          /\ UNCHANGED <<pg, ntab, tb, nrows, rw, docRead, colmap, hdrIdx, lastRow>>
    /\ UNCHANGED <<bank, handle, c_idx, fallback, records, df, result, err, expected>>
    /\ UNCHANGED <<agentVars, pureVars>>

\* Lines 49-81: one row of the header scan
SbiScan ==
    /\ bank = "sbi" /\ pc = "scan" /\ rw < nrows
    /\ \E row \in SbiRowPool :
          LET sc == SbiScanTable[<<row, c_idx>>]
          IN  IF sc.err
                 THEN SbiExcept("row")
                 ELSE /\ c_idx' = sc.c_idx
                      /\ lastRow' = [row |-> row, rw |-> rw, how |-> "scan",
                                      tm |-> sc.tm, header |-> sc.header]
                      /\ rw' = rw + 1
                      /\ IF sc.header
                            THEN colmap' = sc.tm /\ hdrIdx' = rw /\ pc' = "data"
                            ELSE UNCHANGED <<colmap, hdrIdx, pc>>
                      /\ UNCHANGED <<bank, handle, pg, ntab, tb, nrows, docRead, fallback,
                                     records, df, result, err, expected>>
    /\ UNCHANGED <<agentVars, pureVars>>

\* Lines 83-85: no row of the table was a header; the table is passed over
SbiNoHeader ==
    /\ bank = "sbi" /\ pc = "scan" /\ rw = nrows
    /\ colmap = EmptyMap
    /\ pc' = "table" /\ TableLeft
    /\ UNCHANGED <<bank, handle, pg, ntab, tb, docRead, c_idx, fallback, records,
                   df, result, err, expected>>
    /\ UNCHANGED <<agentVars, pureVars>>

\* Lines 88-110: one data row
SbiData ==
    /\ bank = "sbi" /\ pc = "data" /\ rw < nrows
    /\ \E row \in SbiRowPool :
          /\ records' = IF SbiAccepts(row, colmap)
                           THEN SbiAppend(records, SbiTransaction(<<pg, tb, rw>>, row, colmap))
                           ELSE records
          /\ lastRow' = [row |-> row, rw |-> rw, how |-> "data",
                          tm |-> colmap, header |-> FALSE]
    /\ rw' = rw + 1
    /\ UNCHANGED <<bank, pc, handle, pg, ntab, tb, nrows, docRead, c_idx, colmap, hdrIdx,
                   fallback, df, result, err, expected>>
    /\ UNCHANGED <<agentVars, pureVars>>

\* The end of data_rows
SbiDataEnd ==
    /\ bank = "sbi" /\ pc = "data" /\ rw = nrows
    /\ pc' = "table" /\ TableLeft
    /\ UNCHANGED <<bank, handle, pg, ntab, tb, docRead, c_idx, fallback, records,
                   df, result, err, expected>>
    /\ UNCHANGED <<agentVars, pureVars>>

\* Lines 116-163: the empty table, or the cleaned and filtered one
SbiPost ==
    /\ bank = "sbi" /\ pc = "post"
    /\ IF records = <<>>
          THEN result' = "empty" /\ df' = SbiEmptyDf
          ELSE result' = "table"
               /\ df' = [cols |-> target_columns, kinds |-> SbiDtypes,
                           rows |-> SbiPostProcess(records)]
    /\ pc' = "done"
    /\ UNCHANGED <<bank, handle, pg, ntab, tb, nrows, rw, docRead, c_idx, colmap,
                   hdrIdx, fallback, lastRow, records, err, expected>>
    /\ UNCHANGED <<agentVars, pureVars>>

SbiNext ==
    \/ SbiOpen \/ SbiNextPage \/ SbiNextTable \/ SbiScan \/ SbiNoHeader
    \/ SbiData \/ SbiDataEnd \/ SbiPost

(***************************************************************************)
(* icici_parser.parse                                                      *)
(***************************************************************************)
\* Lines 74-80: the record of a row under a header mapping
IciciAtShifted(row, i) ==
    IF i # Unset /\ i + 1 < Len(row) THEN row[i + 2] ELSE NoneCell

IciciAt(row, i) == IF i # Unset /\ i < Len(row) THEN row[i + 1] ELSE NoneCell

IciciMappedRecord(id, row, idx) ==
    MkRecord(id, IciciAt(row, idx.date), IciciAt(row, idx.description),
             IciciAt(row, idx.debit), IciciAt(row, idx.credit),
             IciciAt(row, idx.balance))

\* Lines 86-90: r, padded to 5 cells with "" or capped to 7
RECURSIVE PadTo(_, _)
PadTo(r, n) == IF Len(r) >= n THEN r ELSE PadTo(Append(r, Cell("")), n)

PAD_LEN == 5
CAP_LEN == 7

IciciNormalizeLength(row) ==
    IF Len(row) < PAD_LEN THEN PadTo(row, PAD_LEN)
    ELSE IF Len(row) > CAP_LEN THEN SubSeq(row, 1, CAP_LEN)
    ELSE row

\* Lines 108-111: the crude numeric-like check
NumericLike(val) ==
    LET val_str == IF val.k = "None" THEN "" ELSE PyStrip(AsTypeStr(val))
        val_clean == PyReplace(val_str, ",", "")
    IN  IsDigit(PyReplaceN(PyReplaceN(val_clean, ".", "", 1), "-", "", 1))

\* Lines 106-149: the record of a row by the numeric-rightmost heuristic
IciciHeuristic(id, r) ==
    LET nums == SelectSeq([i \in 1..Len(r) |-> [i |-> i, val |-> r[i]]],
                          LAMBDA x : NumericLike(x.val))
        remaining == SubSeq(nums, 1, Len(nums) - 1)
        d == IF Len(r) > 0 THEN r[1] ELSE NoneCell
        ds == IF Len(r) > 1 THEN r[2] ELSE NoneCell
    IN  IF nums # <<>>
           THEN LET balance_val == nums[Len(nums)].val
                    debit_val ==
                        IF Len(remaining) = 1
                           THEN (IF StartsWith(PyStrip(AsTypeStr(remaining[1].val)), "-")
                                    THEN remaining[1].val ELSE NoneCell)
                        ELSE IF Len(remaining) >= 2 THEN remaining[1].val
                        ELSE NoneCell
                    credit_val ==
                        IF Len(remaining) = 1
                           THEN (IF StartsWith(PyStrip(AsTypeStr(remaining[1].val)), "-")
                                    THEN NoneCell ELSE remaining[1].val)
                        ELSE IF Len(remaining) >= 2 THEN remaining[2].val
                        ELSE NoneCell
                IN  MkRecord(id, d, ds, debit_val, credit_val, balance_val)
           ELSE MkRecord(id, d, ds, NoneCell, NoneCell, NoneCell)

\* Lines 86-149 with the positional branch taken for exactly 5 cells
IciciFallbackRecordExact5(id, row) ==
    LET r == IciciNormalizeLength(row)
    IN  IF Len(r) = PAD_LEN
           THEN MkRecord(id, r[1], r[2], r[3], r[4], r[5])
           ELSE IciciHeuristic(id, r)

\* Lines 86-149: the record of a row when no header column was identified
IciciFallbackRecord(id, row) ==
    LET r == IciciNormalizeLength(row)
    IN  IF Len(r) >= PAD_LEN
           THEN MkRecord(id, r[1], r[2], r[3], r[4], r[5])
           ELSE IciciHeuristic(id, r)

\* Line 67
fallback_5col(idx) == \A c \in IciciCols : idx[c] = Unset

\* _clean_string_series, on one element
IciciCleanString(cell) ==
    LET s == PyStrip(AsTypeStr(cell))
    IN  IF s \in {"", "none", "nan"} THEN NA ELSE Cell(s)

\* Lines 161-162: Series.replace(0, pd.NA), on one element
ZeroToNA(v) == IF IsZero(v) THEN NA ELSE v

\* Lines 154-162 on one row
IciciCleanRecord(rec) ==
    MkRecord(rec.id, IciciCleanString(rec.Date), IciciCleanString(rec.Description),
             ZeroToNA(IciciCleanNumeric(rec.Debit)),
             ZeroToNA(IciciCleanNumeric(rec.Credit)),
             IciciCleanNumeric(rec.Balance))

RECURSIVE MapIciciClean(_)
MapIciciClean(recs) ==
    IF recs = <<>> THEN <<>>
    ELSE <<IciciCleanRecord(Head(recs))>> \o MapIciciClean(Tail(recs))

\* The field of a record for a column name
Field(rec, col) ==
    CASE col = "Date" -> rec.Date
      [] col = "Description" -> rec.Description
      [] col = "Debit Amt" -> rec.Debit
      [] col = "Credit Amt" -> rec.Credit
      [] col = "Balance" -> rec.Balance

Dropped == [k |-> "dropped", s |-> "", m |-> 0, e |-> 0]

\* Lines 169-174 on one element: the value after astype(expected dtype), or
\* Raises when the cast fails. kind is expected[col].dtype.kind: "f", "i" or
\* "O".
Raises == [k |-> "raises", s |-> "", m |-> 0, e |-> 0]

\* float(s) of a string of an object column
StrToFloat(n) == IF n = NaN THEN Raises ELSE n

\* astype(float64): pd.NA was replaced by NaN on line 170
AsFloat(v) ==
    IF v.k = "NA" THEN NaN
    ELSE IF v.k = "str" THEN StrToFloat(ToNumeric(PyStrip(v.s)))
    ELSE v

\* The integer part of w, towards zero
Trunc(m, p) == IF m < 0 THEN -((-m) \div p) ELSE m \div p

\* astype(int64) of the float w: NaN cannot be cast, and neither can a string
\* with a fraction (int("2.5"))
AsInt(w, fromStr) ==
    IF w.k = "nan" THEN Raises
    ELSE IF w.k = "num" THEN
            (IF fromStr /\ w.e > 0 THEN Raises ELSE Num(Trunc(w.m, Pow10(w.e)), 0))
    ELSE w

\* astype left out: the value stays as the cleaning left it
AsTypeKindNoCast(v, kind) == v

AsTypeKind(v, kind) ==
    IF kind = "O" THEN v
    ELSE IF kind = "f" THEN AsFloat(v)
    ELSE AsInt(AsFloat(v), v.k = "str")

\* expected.columns, in order
RECURSIVE SchemaNames(_)
SchemaNames(sch) ==
    IF sch = <<>> THEN <<>> ELSE <<Head(sch).name>> \o SchemaNames(Tail(sch))

\* The dtype kind each column has after astype(expected[col].dtype)
RECURSIVE SchemaKinds(_)
SchemaKinds(sch) ==
    IF sch = <<>> THEN <<>> ELSE <<Head(sch).kind>> \o SchemaKinds(Tail(sch))

SchemaCols(sch) == {sch[i].name : i \in 1..Len(sch)}

KindOf(sch, col) == sch[CHOOSE i \in 1..Len(sch) : sch[i].name = col].kind

\* Lines 166-174 on one row: the columns the schema does not name are dropped
IciciReconcileRecord(rec, sch) ==
    LET V(col) == IF col \in SchemaCols(sch)
                     THEN AsTypeKind(Field(rec, col), KindOf(sch, col))
                     ELSE Dropped
    IN  MkRecord(rec.id, V("Date"), V("Description"), V("Debit Amt"),
                 V("Credit Amt"), V("Balance"))

RECURSIVE MapIciciReconcile(_, _)
MapIciciReconcile(recs, sch) ==
    IF recs = <<>> THEN <<>>
    ELSE <<IciciReconcileRecord(Head(recs), sch)>> \o MapIciciReconcile(Tail(recs), sch)

RowRaises(r) ==
    \E col \in ColSet : Field(r, col) = Raises

\* Lines 171-176: a failed cast raises, otherwise the table is returned
IciciResult(rows, sch) ==
    IF \E i \in 1..Len(rows) : RowRaises(rows[i])
       THEN [result |-> "raised", df |-> NoDf]
       ELSE [result |-> "table",
             df |-> [cols |-> SchemaNames(sch), kinds |-> SchemaKinds(sch),
                     rows |-> rows]]

\* Lines 151-176: the returned table, or what is raised
IciciPostProcess(recs, sch) ==
    IF ~(SchemaCols(sch) \subseteq ColSet)
       THEN [result |-> "raised", df |-> NoDf]            \* KeyError, line 166
       ELSE IciciResult(MapIciciReconcile(MapIciciClean(recs), sch), sch)

Col(name, kind) == [name |-> name, kind |-> kind]

\* The reference schemas data/icici/expected.csv is drawn from
IciciSchemas ==
    { <<Col("Date", "O"), Col("Description", "O"), Col("Debit Amt", "f"),
        Col("Credit Amt", "f"), Col("Balance", "f")>>,
      <<Col("Date", "O"), Col("Description", "O"), Col("Debit Amt", "f"),
        Col("Credit Amt", "f"), Col("Balance", "i")>>,
      <<Col("Balance", "f"), Col("Date", "O"), Col("Description", "O"),
        Col("Credit Amt", "O"), Col("Debit Amt", "f")>>,
      <<Col("Date", "O"), Col("Description", "O"), Col("Balance", "f")>>,
      <<Col("Date", "O"), Col("Description", "O"), Col("Debit Amt", "f"),
        Col("Credit Amt", "f"), Col("Balance", "f"), Col("Ref", "O")>> }

\* The rows a table of an ICICI statement is drawn from
IciciRowPool ==
    { <<D("Date"), D("Narration"), D("Debit"), D("Credit"), D("Balance")>>,
      <<D("Txn"), D("Details")>>,
      <<>>,
      <<D("01/02/2025"), D("UPI"), D("100.00"), D("-"), D("5,000.00")>>,
      <<D("02/02/2025"), NoneCell, D("0"), D("...")>>,
      <<D("06/02/2025"), D("NEFT"), D("x"), D("50.00"), D(""), D("900")>> }

IciciParseInit ==
    /\ bank = "icici" /\ pc = "start" /\ handle = "none"
    /\ pg = 0 /\ ntab = 0 /\ tb = 0 /\ nrows = 0 /\ rw = 0 /\ docRead = NoneRead
    /\ c_idx = Unset /\ colmap = EmptyMap /\ hdrIdx = -1 /\ fallback = FALSE
    /\ lastRow = NoRow /\ records = <<>> /\ df = NoDf
    /\ result = "none" /\ err = "none" /\ expected = <<>>

\* An exception leaves parse with the handle as it is
IciciRaiseLeak(what) ==
    /\ pc' = "done" /\ handle' = handle
    /\ result' = "raised" /\ err' = what
    /\ LoopLeft
    /\ UNCHANGED <<bank, fallback, records, df, expected>>

\* An exception leaves parse: the with block, if entered, releases the handle
IciciRaise(what) ==
    /\ pc' = "done" /\ handle' = IF handle = "open" THEN "closed" ELSE handle
    /\ result' = "raised" /\ err' = what
    /\ LoopLeft
    /\ UNCHANGED <<bank, fallback, records, df, expected>>

\* Line 55: pdfplumber.open(pdf_path), which may raise
IciciOpen ==
    /\ bank = "icici" /\ pc = "start"
    /\ \/ /\ handle' = "open" /\ pc' = "page"
          /\ UNCHANGED <<bank, pg, ntab, tb, nrows, rw, docRead, c_idx, colmap,
                         hdrIdx, fallback, lastRow, records, df, result, err,
                         expected>>
       \/ IciciRaise("open")
    /\ UNCHANGED <<agentVars, pureVars>>

\* Lines 56-57: the next page and its extract_tables(), which may raise; or
\* the end of pdf.pages, where the with block ends
IciciNextPage ==
    /\ bank = "icici" /\ pc = "page"
    /\ \/ /\ pg < MaxPages
          /\ \E k \in 0..(MaxDocTables - docRead.tables) :
                /\ pg' = pg + 1 /\ ntab' = k /\ tb' = 0 /\ pc' = "table"
                /\ docRead' = [docRead EXCEPT !.tables = @ + k]
          /\ UNCHANGED <<bank, handle, nrows, rw, c_idx, colmap, hdrIdx,
                         fallback, lastRow, records, df, result, err, expected>>
       \/ /\ pg < MaxPages
          /\ IciciRaise("extract")
       \/ /\ handle' = "closed" /\ pc' = "post"
          /\ LoopLeft
          /\ UNCHANGED <<bank, fallback, records, df, result, err, expected>>
    /\ UNCHANGED <<agentVars, pureVars>>

MIN_TABLE_ROWS == 2

\* Lines 58-67: the next table of the page (one of fewer than 2 rows is
\* passed over), its first row taken as the header; or the end of the tables
IciciNextTable ==
    /\ bank = "icici" /\ pc = "table"
    /\ \/ /\ tb < ntab
          /\ \E n \in 0..Min(MaxRows, MaxDocRows - docRead.rows) :
                /\ tb' = tb + 1
                /\ docRead' = [docRead EXCEPT !.rows = @ + n]
                /\ IF n < MIN_TABLE_ROWS
                      THEN /\ pc' = "table"
                           /\ UNCHANGED <<nrows, rw, colmap, fallback, lastRow>>
                      ELSE \E header \in IciciRowPool :
                              LET col_idx == _find_col_indices(_normalize_header(header))
                              IN  /\ colmap' = col_idx
                                  /\ fallback' = fallback_5col(col_idx)
                                  /\ lastRow' = [row |-> header, rw |-> 0,
                                                 how |-> "header", tm |-> <<>>,
                                                 header |-> TRUE]
                                  /\ nrows' = n /\ rw' = 1
                                  /\ pc' = "rows"
          /\ UNCHANGED <<pg, ntab>>
       \/ /\ tb = ntab
          /\ pc' = "page"
          /\ UNCHANGED <<pg, ntab, tb, nrows, rw, docRead, colmap, fallback, lastRow>>
    /\ UNCHANGED <<bank, handle, c_idx, hdrIdx, records, df, result, err, expected>>
    /\ UNCHANGED <<agentVars, pureVars>>

\* records.append(rec)
IciciAppend(recs, rec) == Append(recs, rec)

\* Lines 68-149: one row of table[1:]
IciciRow ==
    /\ bank = "icici" /\ pc = "rows" /\ rw < nrows
    /\ \E row \in IciciRowPool :
          /\ records' =
                IF row = <<>> THEN records
                ELSE IF ~fallback
                        THEN IciciAppend(records, IciciMappedRecord(<<pg, tb, rw>>, row, colmap))
                        ELSE IciciAppend(records, IciciFallbackRecord(<<pg, tb, rw>>, row))
          /\ lastRow' = [row |-> row, rw |-> rw, how |-> "data", tm |-> <<>>,
                         header |-> FALSE]
    /\ rw' = rw + 1
    /\ UNCHANGED <<bank, pc, handle, pg, ntab, tb, nrows, docRead, c_idx, colmap,
                   hdrIdx, fallback, df, result, err, expected>>
    /\ UNCHANGED <<agentVars, pureVars>>

\* The end of table[1:]
IciciRowsEnd ==
    /\ bank = "icici" /\ pc = "rows" /\ rw = nrows
    /\ pc' = "table" /\ TableLeft /\ fallback' = FALSE
    /\ UNCHANGED <<bank, handle, pg, ntab, tb, docRead, c_idx, records, df,
                   result, err, expected>>
    /\ UNCHANGED <<agentVars, pureVars>>

IciciReturn(out) ==
    /\ result' = out.result
    /\ df' = out.df
    /\ err' = IF out.result = "raised" THEN "schema" ELSE err

\* Lines 151-176: cleaning and the reconciliation with expected.csv
IciciPost ==
    /\ bank = "icici" /\ pc = "post"
    /\ \/ \E sch \in IciciSchemas :
             /\ expected' = sch
             /\ IciciReturn(IciciPostProcess(records, sch))
       \/ /\ result' = "raised" /\ err' = "expected"   \* read_csv raises, line 165
          /\ UNCHANGED <<df, expected>>
    /\ pc' = "done"
    /\ UNCHANGED <<bank, handle, pg, ntab, tb, nrows, rw, docRead, c_idx, colmap,
                   hdrIdx, fallback, lastRow, records>>
    /\ UNCHANGED <<agentVars, pureVars>>

IciciNext ==
    \/ IciciOpen \/ IciciNextPage \/ IciciNextTable \/ IciciRow \/ IciciRowsEnd
    \/ IciciPost

(***************************************************************************)
(* The specifications of parse                                             *)
(***************************************************************************)
SbiInit == SbiParseInit /\ AgentIdle /\ PureIdle

SpecSbi == SbiInit /\ [][SbiNext]_vars

IciciInit == IciciParseInit /\ AgentIdle /\ PureIdle

SpecIcici == IciciInit /\ [][IciciNext]_vars

ParseInit == (SbiParseInit \/ IciciParseInit) /\ AgentIdle /\ PureIdle

ParseNext == SbiNext \/ IciciNext

SpecParse == ParseInit /\ [][ParseNext]_vars

(***************************************************************************)
(* Properties of parse                                                     *)
(***************************************************************************)
\* (page, table, row) of a record, and their document order
LexLess(a, b) ==
    \/ a[1] < b[1]
    \/ a[1] = b[1] /\ a[2] < b[2]
    \/ a[1] = b[1] /\ a[2] = b[2] /\ a[3] < b[3]

InDocumentOrder(recs) ==
    \A i \in 1..Len(recs) : \A j \in 1..Len(recs) :
        i < j => LexLess(recs[i].id, recs[j].id)

IdsOf(recs) == {recs[i].id : i \in 1..Len(recs)}

\* C2: in both parsers the accumulated records are in (page, table, row)
\* order, and the rows of the returned table are a subsequence of them in the
\* same order: what is appended is never moved, and the later filtering only
\* removes rows.
C2_OrderPreserved ==
    /\ InDocumentOrder(records)
    /\ (pc = "done" /\ result = "table") =>
          /\ InDocumentOrder(df.rows)
          /\ IdsOf(df.rows) \subseteq IdsOf(records)

\* A returned table of several rows, the filter having removed one
C2_Witness ==
    /\ pc = "done" /\ result = "table"
    /\ Len(df.rows) >= 2 /\ Len(records) > Len(df.rows)

\* The header rule as the code has it: Date and three mapped columns in all
CodeHeaderRule(tm) ==
    "Date" \in Range(tm) /\ Cardinality(Range(tm)) >= 3

\* The header rule as stated: Date and Description, or Date and Balance and
\* two other mapped columns
StatedHeaderRule(tm) ==
    \/ "Date" \in Range(tm) /\ "Description" \in Range(tm)
    \/ /\ "Date" \in Range(tm) /\ "Balance" \in Range(tm)
       /\ Cardinality(Range(tm) \ {"Date", "Balance"}) >= 2

\* The first qualifying row is the header, the scan stops there, and the data
\* rows are the rows after it
HeaderScanOrder ==
    /\ pc = "scan" =>
          /\ hdrIdx = -1
          /\ lastRow.how = "scan" => ~lastRow.header /\ lastRow.rw = rw - 1
          /\ \A i \in 1..Len(records) :
                <<records[i].id[1], records[i].id[2]>> # <<pg, tb>>
    /\ pc = "data" =>
          /\ hdrIdx >= 0 /\ rw > hdrIdx
          /\ lastRow.how = "scan" =>
                /\ lastRow.header /\ lastRow.rw = hdrIdx /\ rw = hdrIdx + 1
                /\ colmap = lastRow.tm
          /\ lastRow.how = "data" => lastRow.rw = rw - 1 /\ lastRow.rw > hdrIdx
          /\ \A i \in 1..Len(records) :
                <<records[i].id[1], records[i].id[2]>> = <<pg, tb>>
                    => records[i].id[3] > hdrIdx
    /\ (lastRow.how = "scan" /\ lastRow.header) => pc = "data"

PosCell(row, i) == IF i <= Len(row) THEN row[i] ELSE Cell("")

Positional(id, row) ==
    MkRecord(id, PosCell(row, 1), PosCell(row, 2), PosCell(row, 3),
             PosCell(row, 4), PosCell(row, 5))

\* The last row read of a table in which no header was found
NoHeaderRow ==
    \/ bank = "icici" /\ pc = "rows" /\ fallback /\ lastRow.how \in {"header", "data"}
    \/ bank = "sbi" /\ pc = "scan" /\ rw = nrows /\ nrows >= 2 /\ lastRow.how = "scan"

C8_HeuristicForLongRows ==
    (/\ bank = "icici" /\ pc = "rows" /\ fallback /\ lastRow.how = "data"
     /\ Len(IciciNormalizeLength(lastRow.row)) \in {6, 7}) =>
        /\ records # <<>>
        /\ records[Len(records)] =
              IciciHeuristic(<<pg, tb, lastRow.rw>>, IciciNormalizeLength(lastRow.row))

\* A cell that is null, empty or only whitespace
BlankCell(c) == c.k # "str" \/ PyStrip(c.s) = ""

\* The record a row of the returned table was made from
SourceOf(r) == records[CHOOSE i \in 1..Len(records) : records[i].id = r.id]

\* C9: no row of the table sbi_parser.parse returns comes from a data row
\* whose Description cell is null, empty or only whitespace and whose three
\* amount cells all coerce to zero.
C9_NoBlankZeroRow ==
    (bank = "sbi" /\ pc = "done" /\ result = "table") =>
        \A i \in 1..Len(df.rows) :
            ~(/\ BlankCell(SourceOf(df.rows[i]).Description)
              /\ IsZero(SbiCleanNumeric(SourceOf(df.rows[i]).Debit))
              /\ IsZero(SbiCleanNumeric(SourceOf(df.rows[i]).Credit))
              /\ IsZero(SbiCleanNumeric(SourceOf(df.rows[i]).Balance)))

\* C10: no parse of sbi_parser.parse ends on the failure of one row: a bad row
\* is skipped or gives a record of null fields, and the rows, tables and pages
\* after it are still read.
C10_RowFailureLocal ==
    (bank = "sbi" /\ pc = "done") => err # "row"

\* C11: whenever the column set of the reference schema differs from the five
\* logical columns, the reconciliation of icici_parser.parse raises; no table
\* is returned from which columns were dropped.
C11_SchemaMismatchRaises ==
    (bank = "icici" /\ pc = "done" /\ expected # <<>>
     /\ SchemaCols(expected) # ColSet) => result = "raised"

\* Whether a value can be an element of a column of the dtype kind
FitsKind(v, kind) ==
    CASE kind = "f" -> v.k \in {"num", "nan"}
      [] kind = "i" -> v.k = "num" /\ v.e = 0
      [] OTHER -> v.k \in {"str", "NA", "num", "nan", "None"}

\* The reference schema is a permutation of the five logical columns
PermutationSchema(sch) == Len(sch) = 5 /\ SchemaCols(sch) = ColSet

\* C12: whenever icici_parser.parse returns under a reference schema that is a
\* permutation of the five logical columns, the columns of the returned table
\* are those of the schema in the schema's order, each column has the dtype
\* kind of the schema's column, and every value of the column is one that
\* kind can hold.
C12_SchemaForced ==
    (bank = "icici" /\ pc = "done" /\ result = "table"
     /\ PermutationSchema(expected)) =>
        /\ df.cols = [i \in 1..5 |-> expected[i].name]
        /\ df.kinds = [i \in 1..5 |-> expected[i].kind]
        /\ \A r \in 1..Len(df.rows) : \A i \in 1..5 :
              FitsKind(Field(df.rows[r], expected[i].name), expected[i].kind)

\* A table returned under a schema in another order than the parser's, with a
\* zero debit that became the missing value of a float column
C12_Witness ==
    /\ bank = "icici" /\ pc = "done" /\ result = "table"
    /\ PermutationSchema(expected) /\ expected[1].name = "Balance"
    /\ \E r \in 1..Len(df.rows) :
          /\ df.rows[r].Debit = NaN
          /\ IsZero(IciciCleanNumeric(SourceOf(df.rows[r]).Debit))

(***************************************************************************)
(* The coercions of both parsers, on one cell, applied and applied again   *)
(***************************************************************************)
Coercions == {"icici_str", "icici_amt", "sbi_num", "sbi_date", "sbi_desc"}

\* icici_parser lines 154-162 and sbi_parser lines 129-154, on one element
Coerce(fn, v) ==
    CASE fn = "icici_str" -> IciciCleanString(v)
      [] fn = "icici_amt" -> ZeroToNA(IciciCleanNumeric(v))
      [] fn = "sbi_num" -> SbiCleanNumeric(v)
      [] fn = "sbi_date" -> ToDatetime(v)
      [] fn = "sbi_desc" -> SbiCleanDescription(v)

\* The raw cells: the amount texts, some dates and descriptions, None, and
\* (sbi only) the NaN of a key the transaction does not have
CoerceCells ==
    NumCells \cup {Cell("01/02/2025"), Cell("31/02/2025"), Cell("UPI"),
                   Cell(" ATM "), Cell("None"), Cell("none"), Cell("nan")}

CoerceInit ==
    /\ purePc = "in"
    /\ pureIn \in CoerceCells
    /\ pureOut = NoneCell
    /\ AgentIdle
    /\ ParseIdle

\* The coercion of a column, as parse applies it
ApplyCoerce ==
    /\ purePc = "in"
    /\ \E fn \in Coercions :
          /\ fn \in {"icici_str", "icici_amt"} => pureIn # NaN
          /\ purePc' = fn
          /\ pureOut' = Coerce(fn, pureIn)
    /\ UNCHANGED <<pureIn, agentVars, parseVars>>

\* The same coercion applied to its own output
ReapplyCoerce ==
    /\ purePc \in Coercions
    /\ purePc' = purePc \o "_again"
    /\ pureIn' = pureOut
    /\ pureOut' = Coerce(purePc, pureOut)
    /\ UNCHANGED <<agentVars, parseVars>>

CoerceNext == ApplyCoerce \/ ReapplyCoerce

SpecCoerce == CoerceInit /\ [][CoerceNext]_vars

\* The same value, or a null on both sides
SameCell(a, b) == a = b \/ (IsNull(a) /\ IsNull(b))

\* C13: a coercion applied to its own output changes no cell: the same value,
\* or null where it was null, for the string and amount cleaning of
\* icici_parser and for the cleaning steps of sbi_parser.parse.
C13_CoercionIdempotent ==
    (\E fn \in Coercions : purePc = fn \o "_again") => SameCell(pureOut, pureIn)

\* The key of a logical column in the mapping of icici_parser
IciciKey(col) ==
    CASE col = "Date" -> "date"
      [] col = "Description" -> "description"
      [] col = "Debit Amt" -> "debit"
      [] col = "Credit Amt" -> "credit"
      [] col = "Balance" -> "balance"

\* The physical indices mapped to a logical column, within the bounds of row
MappedIn(col, row) ==
    IF bank = "icici"
       THEN {i \in 0..(Len(row) - 1) : colmap[IciciKey(col)] = i}
       ELSE {i \in DOMAIN colmap : colmap[i] = col /\ i < Len(row)}

\* A data row of a table with a header mapping was made a record
MappedRowRead ==
    /\ lastRow.how = "data" /\ lastRow.row # <<>>
    /\ \/ bank = "icici" /\ pc = "rows" /\ ~fallback
       \/ bank = "sbi" /\ pc = "data"
    /\ records # <<>> /\ records[Len(records)].id = <<pg, tb, lastRow.rw>>

\* C14: in mapped mode of both parsers the record of a data row holds, for
\* every logical column mapped to an index within the row, exactly the cell at
\* that index, and null for every column that has no mapped index or whose
\* index is out of the row's bounds.
C14_MappedCellIdentity ==
    /\ (bank = "icici" /\ pc = "rows" /\ ~fallback /\ lastRow.how = "data"
        /\ lastRow.row # <<>>) => MappedRowRead
    /\ MappedRowRead =>
          \A col \in ColSet :
              IF MappedIn(col, lastRow.row) # {}
                 THEN \A i \in MappedIn(col, lastRow.row) :
                          Field(records[Len(records)], col) = lastRow.row[i + 1]
                 ELSE IsNull(Field(records[Len(records)], col))

\* A row of four cells under a header of five columns: Balance is out of the
\* row's bounds and null, Debit is the cell at its index
C14_Witness ==
    /\ bank = "icici" /\ MappedRowRead /\ Len(lastRow.row) = 4
    /\ colmap["balance"] = 4 /\ colmap["debit"] = 2
    /\ records[Len(records)].Balance = NoneCell
    /\ records[Len(records)].Debit = lastRow.row[3]

\* C15: in both parsers the PDF handle is not open once the extraction loop
\* is left: cleaning and reconciliation run with the handle released, and after
\* parse returns or raises, whatever the exit path, the handle that was opened
\* is closed.
C15_HandleReleased ==
    /\ pc \in {"post", "done"} => handle # "open"
    /\ (pc = "done" /\ err # "open") => handle = "closed"

\* An exception of extract_tables on a later page, records being accumulated
C15_Witness ==
    pc = "done" /\ err = "extract" /\ handle = "closed" /\ records # <<>>

\* C16: when opening the PDF or a step of the extraction raises,
\* sbi_parser.parse raises nothing and returns the table of zero rows with the
\* columns Date, Description, Debit Amt, Credit Amt, Balance in this order,
\* whatever was accumulated before; it returns the same table when no
\* transaction was found.
C16_EmptyTableOnFailure ==
    (bank = "sbi" /\ pc = "done") =>
        /\ result # "raised"
        /\ (err # "none" \/ records = <<>>) =>
              /\ result = "empty"
              /\ df.cols = <<"Date", "Description", "Debit Amt", "Credit Amt", "Balance">>
              /\ df.rows = <<>>

\* extract_tables raises on the second page after the first page gave records
C16_Witness ==
    /\ bank = "sbi" /\ pc = "done" /\ err = "extract" /\ records # <<>>
    /\ result = "empty" /\ df.rows = <<>> /\ Len(df.cols) = 5

\* C17: parse_node never runs for a target without an entry in
\* PARSER_REGISTRY: once generate_parser_node has returned normally (the run
\* is at parse, test, the conditional edge or END) the target is registered,
\* and generate_parser_node has run exactly once, retries included; it never
\* runs more than once in a run.
C17_RegisteredBeforeParse ==
    /\ genRuns <= 1
    /\ node \in {"parse", "test", "test_edge", "END"} =>
          /\ target \in registry
          /\ genRuns = 1
    /\ parseRuns >= 1 => (target \in registry /\ genRuns = 1)

\* A retry: parse_node is about to run a second time, after a stub was
\* written for a target that had no parser file registered.
C17_Witness ==
    /\ node = "parse" /\ parseRuns = 1 /\ attempt = 2
    /\ genRuns = 1 /\ ~apiKey /\ target \in registry
====
